---- MODULE Spec2Model ----
(***************************************************************************)
(* A model of the analytics functions of src/app.py:                       *)
(*   calculate_financial_health   (keyword risk scoring)                   *)
(*   parse_time_series_expenses   (date/amount extraction, monthly sums)   *)
(*   show_expense_trend_analysis  (month-over-month commentary)            *)
(*                                                                         *)
(* Text is a sequence of one-character strings, so that splitlines, strip, *)
(* lower, substring tests and the regular expression are computed rather   *)
(* than assumed.  String literals are ASCII: the emoji that open the status *)
(* strings are left out, the emoji that open the trend messages are        *)
(* written [up], [down], [flat], and the rupee sign is written Rs.         *)
(***************************************************************************)
EXTENDS Integers, Sequences, FiniteSets, TLC

VARIABLES
    pc,             \* position of the run
    invoice_text,   \* argument of calculate_financial_health
    scan,           \* locals of calculate_financial_health after its loop
    result,         \* value returned by calculate_financial_health
    analysis_text,  \* argument of parse_time_series_expenses
    data,           \* the list `data` of parse_time_series_expenses
    df,             \* the table returned by parse_time_series_expenses
    trend           \* what show_expense_trend_analysis emitted

vars == <<pc, invoice_text, scan, result, analysis_text, data, df, trend>>

(***************************************************************************)
(* Bounds of the model.                                                    *)
(***************************************************************************)
MaxLines == 3           \* free-form invoice texts have up to MaxLines lines
MaxHighRepeat == 29     \* bulk invoice texts: copies of a high-risk line
MaxPlainRepeat == 21    \* bulk invoice texts: copies of a neutral line
MaxLowRepeat == 1       \* bulk invoice texts: copies of a low-risk line
MaxEntryLines == 3      \* analysis texts have up to MaxEntryLines lines

(***************************************************************************)
(* Characters and strings.                                                 *)
(***************************************************************************)
NL == "\n"
Whitespace == {" ", "\t"}
Digits == <<"0","1","2","3","4","5","6","7","8","9">>
UpperChars == <<"A","B","C","D","E","F","G","H","I","J","K","L","M",
                "N","O","P","Q","R","S","T","U","V","W","X","Y","Z">>
LowerChars == <<"a","b","c","d","e","f","g","h","i","j","k","l","m",
                "n","o","p","q","r","s","t","u","v","w","x","y","z">>

IsDigit(c) == \E i \in 1..10 : Digits[i] = c
DigitVal(c) == (CHOOSE i \in 1..10 : Digits[i] = c) - 1

\* str.lower on one character
LowerChar(c) ==
    IF \E i \in 1..26 : UpperChars[i] = c
    THEN LowerChars[CHOOSE i \in 1..26 : UpperChars[i] = c]
    ELSE c

\* str.lower
Lower(s) == [i \in 1..Len(s) |-> LowerChar(s[i])]

\* str.strip: drop leading and trailing whitespace
Strip(s) ==
    LET keep == {i \in 1..Len(s) : s[i] \notin Whitespace}
    IN  IF keep = {} THEN <<>>
        ELSE SubSeq(s, CHOOSE i \in keep : \A j \in keep : i <= j,
                       CHOOSE i \in keep : \A j \in keep : j <= i)

\* str.splitlines: a line ends at each newline; a trailing newline opens no
\* further line
Splitlines(text) ==
    LET ends == {i \in 1..Len(text) : text[i] = NL}
        last == IF ends = {} THEN 0
                ELSE CHOOSE i \in ends : \A j \in ends : j <= i
        n == Cardinality(ends) + (IF last < Len(text) THEN 1 ELSE 0)
        \* where line k starts: after the (k-1)-th newline
        first(k) == IF k = 1 THEN 1
                    ELSE 1 + CHOOSE i \in ends :
                                 Cardinality({j \in ends : j < i}) = k - 2
        stop(k) == IF k <= Cardinality(ends)
                   THEN (CHOOSE i \in ends :
                             Cardinality({j \in ends : j < i}) = k - 1) - 1
                   ELSE Len(text)
    IN  [k \in 1..n |-> SubSeq(text, first(k), stop(k))]

\* sep.join(items[lo..hi])
RECURSIVE JoinRange(_, _, _, _)
JoinRange(items, sep, lo, hi) ==
    IF lo > hi THEN <<>>
    ELSE IF lo = hi THEN items[lo]
    ELSE JoinRange(items, sep, lo, (lo + hi) \div 2) \o sep
         \o JoinRange(items, sep, ((lo + hi) \div 2) + 1, hi)

\* sep.join(items)
Join(items, sep) == JoinRange(items, sep, 1, Len(items))

\* `keyword in line`
Contains(line, keyword) ==
    \E i \in 1..(Len(line) - Len(keyword) + 1) :
        SubSeq(line, i, i + Len(keyword) - 1) = keyword

\* str(n) for a natural number
RECURSIVE IntToStr(_)
IntToStr(n) ==
    IF n < 10 THEN <<Digits[n + 1]>>
    ELSE Append(IntToStr(n \div 10), Digits[(n % 10) + 1])

(***************************************************************************)
(* Python floats (IEEE 754 binary64, round to nearest, ties to even).      *)
(* A float is [zero, exp, frac]: unless zero, its value is                 *)
(* (1 + F / 2^52) * 2^exp, where F is the 52-bit fraction held in frac as  *)
(* FracLimbs limbs of LimbBits bits, most significant limb first.  Only    *)
(* non-negative values occur.                                              *)
(***************************************************************************)
LimbBits == 13
FracLimbs == 4

RECURSIVE Pow2(_)
Pow2(n) == IF n = 0 THEN 1 ELSE 2 * Pow2(n - 1)

LimbBase == Pow2(LimbBits)

FloatZero == [zero |-> TRUE, exp |-> 0, frac |-> [i \in 1..FracLimbs |-> 0]]

\* the fraction `frac` with exponent e, rounded up by one unit when `up`
RoundFraction(frac, e, up) ==
    LET open == {i \in 1..FracLimbs : frac[i] < LimbBase - 1}
    IN  IF ~up THEN [zero |-> FALSE, exp |-> e, frac |-> frac]
        ELSE IF open = {}
        THEN [zero |-> FALSE, exp |-> e + 1, frac |-> [i \in 1..FracLimbs |-> 0]]
        ELSE LET p == CHOOSE i \in open : \A j \in open : j <= i
             IN  [zero |-> FALSE, exp |-> e,
                  frac |-> [i \in 1..FracLimbs |->
                              IF i < p THEN frac[i]
                              ELSE IF i = p THEN frac[i] + 1 ELSE 0]]

\* a/b scaled by a power of two into [1, 2)
RECURSIVE Normalise(_, _, _)
Normalise(a, b, e) ==
    IF a < b THEN Normalise(2 * a, b, e - 1)
    ELSE IF a >= 2 * b THEN Normalise(a, 2 * b, e + 1)
    ELSE [a |-> a, b |-> b, e |-> e]

\* the next n limbs of the quotient r/t by long division (r < t)
RECURSIVE DivLimbs(_, _, _, _)
DivLimbs(r, t, n, acc) ==
    IF n = 0 THEN [limbs |-> acc, rem |-> r]
    ELSE DivLimbs((r * LimbBase) % t, t, n - 1,
                  Append(acc, (r * LimbBase) \div t))

\* h / t for natural h and positive t, correctly rounded
FloatDiv(h, t) ==
    IF h = 0 THEN FloatZero
    ELSE LET n == Normalise(h, t, 0)
             q == DivLimbs(n.a - n.b, n.b, FracLimbs, <<>>)
             up == \/ 2 * q.rem > n.b
                   \/ 2 * q.rem = n.b /\ q.limbs[FracLimbs] % 2 = 1
         IN  RoundFraction(q.limbs, n.e, up)

\* the exact product limbs * n: the limbs of the product below 2^52, and
\* what is carried above them
RECURSIVE MulLimbs(_, _, _, _, _)
MulLimbs(limbs, n, i, carry, acc) ==
    IF i = 0 THEN [limbs |-> acc, carry |-> carry]
    ELSE MulLimbs(limbs, n, i - 1, (limbs[i] * n + carry) \div LimbBase,
                  <<(limbs[i] * n + carry) % LimbBase>> \o acc)

\* x * n for a float x and an integer n with 1 <= n < 2^LimbBits, which is
\* exact as a float
FloatMulInt(x, n) ==
    IF x.zero THEN FloatZero
    ELSE LET p == MulLimbs(x.frac, n, FracLimbs, 0, <<>>)
             top == n + p.carry          \* the product is top * 2^52 + p.limbs
             s == CHOOSE k \in 0..(2 * LimbBits) :
                      Pow2(k) <= top /\ top < Pow2(k + 1)
             above == [i \in 1..FracLimbs |->
                         IF i = 1 THEN top - Pow2(s) ELSE p.limbs[i - 1]]
             kept == [i \in 1..FracLimbs |->
                         (above[i] % Pow2(s)) * Pow2(LimbBits - s)
                         + (p.limbs[i] \div Pow2(s))]
             dropped == p.limbs[FracLimbs] % Pow2(s)
             up == /\ s > 0
                   /\ \/ 2 * dropped > Pow2(s)
                      \/ 2 * dropped = Pow2(s) /\ kept[FracLimbs] % 2 = 1
         IN  RoundFraction(kept, x.exp + s, up)

\* int(x): truncation toward zero, for x < 2^LimbBits
FloatTrunc(x) ==
    IF x.zero \/ x.exp < 0 THEN 0
    ELSE Pow2(x.exp) + (x.frac[1] \div Pow2(LimbBits - x.exp))

Max(a, b) == IF a >= b THEN a ELSE b

(***************************************************************************)
(* calculate_financial_health                                              *)
(***************************************************************************)
high_risk_keywords == <<
    <<"c","o","f","f","e","e">>,
    <<"s","n","a","c","k">>,
    <<"e","n","t","e","r","t","a","i","n","m","e","n","t">>,
    <<"d","e","l","i","v","e","r","y">>,
    <<"u","b","e","r">>,
    <<"l","u","n","c","h">>,
    <<"h","o","t","e","l">>,
    <<"f","l","i","g","h","t">>,
    <<"r","e","s","t","a","u","r","a","n","t">>,
    <<"s","h","o","p","p","i","n","g">>,
    <<"n","e","t","f","l","i","x">>,
    <<"s","w","i","g","g","y">>,
    <<"z","o","m","a","t","o">>
>>

low_risk_keywords == <<
    <<"g","r","o","c","e","r","y">>,
    <<"u","t","i","l","i","t","y">>,
    <<"r","e","n","t">>,
    <<"m","o","r","t","g","a","g","e">>,
    <<"s","a","l","a","r","y">>,
    <<"t","a","x">>,
    <<"i","n","s","u","r","a","n","c","e">>
>>

\* any(keyword in line for keyword in keywords)
AnyKeyword(line, keywords) ==
    \E k \in 1..Len(keywords) : Contains(line, keywords[k])

\* Classify with the two tests in the other order
Classify_LowFirst(line) ==
    IF AnyKeyword(line, low_risk_keywords) THEN "low"
    ELSE IF AnyKeyword(line, high_risk_keywords) THEN "high"
    ELSE "neutral"

\* the if / elif of the loop body, for a counted line
Classify(line) ==
    IF AnyKeyword(line, high_risk_keywords) THEN "high"
    ELSE IF AnyKeyword(line, low_risk_keywords) THEN "low"
    ELSE "neutral"

\* NormaliseLine without the strip
NormaliseLine_NoStrip(raw) == Lower(raw)

\* line = line.strip().lower()
NormaliseLine(raw) == Lower(Strip(raw))

IsCounted(line) == line # <<>>
IsRisky(line) == Classify(line) = "high"
IsLowRisk(line) == Classify(line) = "low"

\* the locals after the loop over invoice_text.splitlines()
ScanInvoice(text) ==
    LET raw == Splitlines(text)
        lines == [i \in 1..Len(raw) |-> NormaliseLine(raw[i])]
        counted == SelectSeq(lines, IsCounted)
        risky == SelectSeq(counted, IsRisky)
        low == SelectSeq(counted, IsLowRisk)
    IN  [risk_score |-> Len(risky),
         high_risk_count |-> Len(risky),
         low_risk_count |-> Len(low),
         total_lines |-> Len(counted),
         risky_items |-> risky,
         low_risk_items |-> low]

\* score = max(0, 100 - int(risk_ratio * 100)), risk_ratio a float
Score(risk_score, total_lines) ==
    Max(0, 100 - FloatTrunc(FloatMulInt(FloatDiv(risk_score, total_lines), 100)))

\* A string built by an f-string is the sequence of its literal parts (each
\* kept whole) and of the characters of its interpolated values.
HighExplanation(s) ==
    IF s.risk_score = 0 THEN <<"No high-risk spending detected.">>
    ELSE <<"Detected ">> \o IntToStr(s.high_risk_count)
         \o <<" high-risk spending items: ">>
         \o Join(s.risky_items, <<",", " ">>) \o <<".">>

LowExplanation(s) ==
    IF s.low_risk_count = 0
    THEN <<"No low-risk, essential spending detected.">>
    ELSE <<"Detected ">> \o IntToStr(s.low_risk_count)
         \o <<" low-risk spending items: ">>
         \o Join(s.low_risk_items, <<",", " ">>) \o <<".">>

\* Status with the second test tried first
Status_AttentionFirst(s) ==
    IF s.risk_score > s.low_risk_count THEN "Needs Attention"
    ELSE IF s.risk_score > 0 /\ s.low_risk_count = 0 THEN "Risky Spending"
    ELSE "Healthy"

Status(s) ==
    IF s.risk_score > 0 /\ s.low_risk_count = 0 THEN "Risky Spending"
    ELSE IF s.risk_score > s.low_risk_count THEN "Needs Attention"
    ELSE "Healthy"

Tip(s) ==
    IF s.risk_score > 0 /\ s.low_risk_count = 0
    THEN "Consider reducing non-essential expenses like dining out, entertainment, and shopping."
    ELSE IF s.risk_score > s.low_risk_count
    THEN "Balance essential and non-essential spending better. Consider cutting down on discretionary spending."
    ELSE "Good balance between essential and non-essential expenses."

\* the returned tuple (score, status, tip, explanation_message)
HealthResult(s) ==
    IF s.total_lines = 0
    THEN [score |-> 100, status |-> "Healthy",
          tip |-> "No risky spending patterns detected.",
          explanation |-> <<"No invoice content found to analyze.">>]
    ELSE [score |-> Score(s.risk_score, s.total_lines),
          status |-> Status(s),
          tip |-> Tip(s),
          explanation |-> Join(<<HighExplanation(s), LowExplanation(s)>>, <<NL>>)]

(***************************************************************************)
(* Invoice texts the model feeds to calculate_financial_health.            *)
(***************************************************************************)
InvoiceLines == {
    <<>>,
    <<" ","\t">>,
    <<" "," ","U","b","e","r"," ","R","i","d","e"," ">>,
    <<"R","e","n","t">>,
    <<"T","a","x"," ","o","n"," ","C","O","F","F","E","E">>,
    <<"M","i","s","c">> }

BulkHighLine == <<"u","b","e","r">>
BulkPlainLine == <<"x">>
BulkLowLine == <<"r","e","n","t">>

FreeTexts ==
    {Join(ls, <<NL>>) : ls \in UNION {[1..n -> InvoiceLines] : n \in 0..MaxLines}}

BulkText(a, b, c) ==
    Join([i \in 1..(a + b + c) |->
            IF i <= a THEN BulkHighLine
            ELSE IF i <= a + b THEN BulkPlainLine ELSE BulkLowLine], <<NL>>)

BulkTexts ==
    {BulkText(a, b, c) : a \in 0..MaxHighRepeat, b \in 0..MaxPlainRepeat,
                          c \in 0..MaxLowRepeat}

NoScan == [risk_score |-> 0, high_risk_count |-> 0, low_risk_count |-> 0,
           total_lines |-> 0, risky_items |-> <<>>, low_risk_items |-> <<>>]
NoResult == [score |-> 0, status |-> "", tip |-> "", explanation |-> <<>>]
NoTrend == [warnings |-> <<>>, entries |-> <<>>, markdowns |-> <<>>]

InitHealth ==
    /\ pc = "start"
    /\ invoice_text \in FreeTexts \cup BulkTexts
    /\ scan = NoScan
    /\ result = NoResult
    /\ analysis_text = <<>>
    /\ data = <<>>
    /\ df = <<>>
    /\ trend = NoTrend

CalculateFinancialHealth ==
    /\ pc = "start"
    /\ scan' = ScanInvoice(invoice_text)
    /\ result' = HealthResult(scan')
    /\ pc' = "returned"
    /\ UNCHANGED <<invoice_text, analysis_text, data, df, trend>>

NextHealth == CalculateFinancialHealth

SpecHealth == InitHealth /\ [][NextHealth]_vars

(***************************************************************************)
(* parse_time_series_expenses                                              *)
(***************************************************************************)
IsSpace(c) == c \in Whitespace

DigitChars == {Digits[i] : i \in 1..10}

\* the index where the run of characters of `class` that starts at `from`
\* ends (from - 1 when the run is empty)
RunEnd(line, from, class) ==
    LET stops == {i \in from..Len(line) : line[i] \notin class}
    IN  IF stops = {} THEN Max(Len(line), from - 1)
        ELSE (CHOOSE i \in stops : \A j \in stops : i <= j) - 1

\* re.match(r"(\d{4}-\d{2}-\d{2})\s+\$(\d+(?:\.\d{2})?)", line): the pattern
\* is matched at the start of the line; what follows the match is not looked at
MatchEntry(line) ==
    LET dateOk == /\ Len(line) >= 10
                  /\ \A i \in {1, 2, 3, 4, 6, 7, 9, 10} : IsDigit(line[i])
                  /\ line[5] = "-" /\ line[8] = "-"
        spaceEnd == RunEnd(line, 11, Whitespace)
        dollar == spaceEnd + 1
        digitEnd == RunEnd(line, dollar + 1, DigitChars)
        hasFraction == /\ digitEnd + 3 <= Len(line)
                       /\ line[digitEnd + 1] = "."
                       /\ IsDigit(line[digitEnd + 2])
                       /\ IsDigit(line[digitEnd + 3])
    IN  IF /\ dateOk
           /\ spaceEnd >= 11
           /\ dollar <= Len(line) /\ line[dollar] = "$"
           /\ digitEnd >= dollar + 1
        THEN [matched |-> TRUE,
              date_str |-> SubSeq(line, 1, 10),
              amount_str |-> SubSeq(line, dollar + 1,
                                    IF hasFraction THEN digitEnd + 3 ELSE digitEnd)]
        ELSE [matched |-> FALSE, date_str |-> <<>>, amount_str |-> <<>>]

\* int() of a string of digits
RECURSIVE StrToInt(_)
StrToInt(digits) ==
    IF digits = <<>> THEN 0
    ELSE 10 * StrToInt(SubSeq(digits, 1, Len(digits) - 1))
         + DigitVal(digits[Len(digits)])

IsLeap(year) == year % 4 = 0 /\ (year % 100 # 0 \/ year % 400 = 0)

DaysInMonth(year, month) ==
    IF month = 2 THEN (IF IsLeap(year) THEN 29 ELSE 28)
    ELSE IF month \in {4, 6, 9, 11} THEN 30 ELSE 31

\* dateutil's parse on a YYYY-MM-DD string: a date, or ValueError (ok = FALSE)
\* when there is no such calendar day
DateParse(date_str) ==
    LET year == StrToInt(SubSeq(date_str, 1, 4))
        month == StrToInt(SubSeq(date_str, 6, 7))
        day == StrToInt(SubSeq(date_str, 9, 10))
    IN  [ok |-> /\ year >= 1
                /\ month \in 1..12
                /\ day >= 1 /\ day <= DaysInMonth(year, month),
         year |-> year, month |-> month, day |-> day]

\* float(amount_str).  Amounts are held in hundredths; the amounts of the
\* model's texts are multiples of 0.25, for which float arithmetic is exact.
ParseFloat(amount_str) ==
    IF Len(amount_str) >= 4 /\ amount_str[Len(amount_str) - 2] = "."
    THEN 100 * StrToInt(SubSeq(amount_str, 1, Len(amount_str) - 3))
         + StrToInt(SubSeq(amount_str, Len(amount_str) - 1, Len(amount_str)))
    ELSE 100 * StrToInt(amount_str)

\* the loop body: what one line appends to `data`
ExtractEntry(raw) ==
    LET line == Strip(raw)
        match == MatchEntry(line)
        date == DateParse(match.date_str)
    IN  IF line = <<>> \/ ~match.matched \/ ~date.ok THEN <<>>
        ELSE <<[Date |-> [year |-> date.year, month |-> date.month,
                          day |-> date.day],
                Amount |-> ParseFloat(match.amount_str)]>>

RECURSIVE ExtractFrom(_, _)
ExtractFrom(lines, i) ==
    IF i > Len(lines) THEN <<>>
    ELSE ExtractEntry(lines[i]) \o ExtractFrom(lines, i + 1)

\* the list `data` after the loop over analysis_text.splitlines()
ParseEntries(text) == ExtractFrom(Splitlines(text), 1)

\* str(n) padded with zeros to `width` characters
ZeroPad(n, width) ==
    LET str == IntToStr(n)
    IN  [i \in 1..(width - Len(str)) |-> "0"] \o str

\* str of the monthly period of a date: "YYYY-MM"
PeriodStr(date) == ZeroPad(date.year, 4) \o <<"-">> \o ZeroPad(date.month, 2)

CharCode(c) == IF c = "-" THEN 45 ELSE 48 + DigitVal(c)

\* a < b for strings of digits and dashes
StrLess(a, b) ==
    \E i \in 1..(Len(a) + 1) :
        /\ i <= Len(b)
        /\ \A j \in 1..(i - 1) : a[j] = b[j]
        /\ i <= Len(a) => CharCode(a[i]) < CharCode(b[i])

RECURSIVE SumAmounts(_, _, _)
SumAmounts(entries, month, i) ==
    IF i > Len(entries) THEN 0
    ELSE (IF PeriodStr(entries[i].Date) = month THEN entries[i].Amount ELSE 0)
         + SumAmounts(entries, month, i + 1)

\* groupby("Month")["Amount"].sum().reset_index() without the sort by key:
\* the groups in order of first appearance
MonthlyTable_Unsorted(entries) ==
    LET firsts == {i \in 1..Len(entries) :
                       \A j \in 1..(i - 1) :
                           PeriodStr(entries[j].Date) # PeriodStr(entries[i].Date)}
        nth(r) == CHOOSE i \in firsts : Cardinality({j \in firsts : j < i}) = r - 1
    IN  [r \in 1..Cardinality(firsts) |->
            [Month |-> PeriodStr(entries[nth(r)].Date),
             Amount |-> SumAmounts(entries, PeriodStr(entries[nth(r)].Date), 1)]]

\* df.groupby("Month")["Amount"].sum().reset_index(): one row per month key,
\* sorted by key, the amounts of the month added up; the empty frame as it is
MonthlyTable(entries) ==
    LET months == {PeriodStr(entries[i].Date) : i \in 1..Len(entries)}
        rank(m) == 1 + Cardinality({k \in months : StrLess(k, m)})
    IN  [r \in 1..Cardinality(months) |->
            LET m == CHOOSE k \in months : rank(k) = r
            IN  [Month |-> m, Amount |-> SumAmounts(entries, m, 1)]]

(***************************************************************************)
(* show_expense_trend_analysis                                             *)
(***************************************************************************)
\* a / b on floats, kept as the fraction; b = 0 gives den = 0 (inf)
Quotient(a, b) == IF b = 0 THEN [num |-> a, den |-> 0] ELSE [num |-> a, den |-> b]

\* PercentChange without the test for a zero base
PercentChange_NoGuard(change, prev_amount) == Quotient(100 * change, prev_amount)

\* percent = (change / prev['Amount']) * 100 if prev['Amount'] != 0 else 0
PercentChange(change, prev_amount) ==
    IF prev_amount # 0 THEN Quotient(100 * change, prev_amount)
    ELSE [num |-> 0, den |-> 1]

\* f"{x:.2f}" for an amount x >= 0 held in hundredths
Format2(hundredths) ==
    IntToStr(hundredths \div 100) \o <<".">> \o ZeroPad(hundredths % 100, 2)

\* n / d rounded to the nearest integer, ties to even (n >= 0, d > 0)
RoundHalfEven(n, d) ==
    LET q == n \div d
        r == n % d
    IN  IF 2 * r > d \/ (2 * r = d /\ q % 2 = 1) THEN q + 1 ELSE q

\* f"{p:.2f}" for a percentage p >= 0 held as a fraction
FormatPercent(p) ==
    IF p.den = 0 THEN <<"i", "n", "f">>
    ELSE Format2(RoundHalfEven(100 * p.num, p.den))

Negate(p) == [num |-> 0 - p.num, den |-> p.den]

\* A message is the sequence of the parts of its f-string: the literal parts
\* and the interpolated values, each a string.
TrendMessage_NoPercent(prev, curr, change, percent) ==
    IF change > 0
    THEN << <<"[up] ">>, curr.Month, <<": Increase of Rs">>, Format2(change),
            <<" compared to ">>, prev.Month >>
    ELSE IF change < 0
    THEN << <<"[down] ">>, curr.Month, <<": Decrease of Rs">>, Format2(0 - change),
            <<" (">>, FormatPercent(Negate(percent)), <<"%) compared to ">>,
            prev.Month >>
    ELSE << <<"[flat] ">>, curr.Month, <<": No change compared to ">>, prev.Month >>

TrendMessage(prev, curr, change, percent) ==
    IF change > 0
    THEN << <<"[up] ">>, curr.Month, <<": Increase of Rs">>, Format2(change),
            <<" (">>, FormatPercent(percent), <<"%) compared to ">>, prev.Month >>
    ELSE IF change < 0
    THEN << <<"[down] ">>, curr.Month, <<": Decrease of Rs">>, Format2(0 - change),
            <<" (">>, FormatPercent(Negate(percent)), <<"%) compared to ">>,
            prev.Month >>
    ELSE << <<"[flat] ">>, curr.Month, <<": No change compared to ">>, prev.Month >>

\* one iteration with the subtraction the wrong way round
TrendStep_Reversed(prev, curr) ==
    LET change == prev.Amount - curr.Amount
        percent == PercentChange(change, prev.Amount)
    IN  [change |-> change, percent |-> percent,
         message |-> TrendMessage(prev, curr, change, percent)]

\* one iteration of the loop over range(1, len(df)): its locals and the
\* message it appends to trend_analysis
TrendStep(prev, curr) ==
    LET change == curr.Amount - prev.Amount
        percent == PercentChange(change, prev.Amount)
    IN  [change |-> change, percent |-> percent,
         message |-> TrendMessage(prev, curr, change, percent)]

\* what the function emits: st.warning calls, the loop's iterations, and the
\* st.markdown calls
TrendAnalysis(table) ==
    IF Len(table) < 2
    THEN [warnings |-> <<"Not enough data to determine trends.">>,
          entries |-> <<>>, markdowns |-> <<>>]
    ELSE LET steps == [i \in 1..(Len(table) - 1) |->
                          TrendStep(table[i], table[i + 1])]
         IN  [warnings |-> <<>>,
              entries |-> steps,
              markdowns |-> [i \in 1..Len(steps) |->
                               << <<"- ">> >> \o steps[i].message]]

(***************************************************************************)
(* Analysis texts the model feeds to parse_time_series_expenses.           *)
(***************************************************************************)
EntryLines == {
    <<>>,
    <<"2","0","2","5","-","0","1","-","1","5"," ","$","1","0","0",".","0","0">>,
    <<"2","0","2","5","-","0","1","-","2","0"," ","$","5","0",".","0","0">>,
    <<"2","0","2","5","-","0","2","-","0","3"," ","$","1","5","0">>,
    <<"2","0","2","5","-","0","3","-","0","9"," ","$","1","5","0",".","0","0">>,
    <<"2","0","2","4","-","1","2","-","3","1"," ","$","0">>,
    <<"n","o","t"," ","a"," ","d","a","t","e"," ","$","1","2">>,
    <<"2","0","2","5","-","0","2","-","1","0"," ","$","1","0","0",".","5">>,
    <<" ","2","0","2","5","-","0","3","-","1","1"," ","\t","$","2","5",".","5","0"," ","p","a","i","d">>,
    <<"2","0","2","5","-","1","3","-","0","1"," ","$","5">>,
    <<"2","0","2","5","-","0","4","-","0","1"," ","$","0",".","0","0">> }

AnalysisTexts ==
    {Join(ls, <<NL>>) : ls \in UNION {[1..n -> EntryLines] : n \in 0..MaxEntryLines}}

InitExpenses ==
    /\ pc = "start"
    /\ analysis_text \in AnalysisTexts
    /\ data = <<>>
    /\ df = <<>>
    /\ trend = NoTrend
    /\ invoice_text = <<>>
    /\ scan = NoScan
    /\ result = NoResult

ParseTimeSeriesExpenses ==
    /\ pc = "start"
    /\ data' = ParseEntries(analysis_text)
    /\ df' = MonthlyTable(data')
    /\ pc' = "parsed"
    /\ UNCHANGED <<analysis_text, trend, invoice_text, scan, result>>

ShowExpenseTrendAnalysis ==
    /\ pc = "parsed"
    /\ trend' = TrendAnalysis(df)
    /\ pc' = "shown"
    /\ UNCHANGED <<analysis_text, data, df, invoice_text, scan, result>>

NextExpenses == ParseTimeSeriesExpenses \/ ShowExpenseTrendAnalysis

SpecExpenses == InitExpenses /\ [][NextExpenses]_vars

(***************************************************************************)
(* Properties of calculate_financial_health, stated for SpecHealth.        *)
(***************************************************************************)
HealthReturned == pc = "returned"

\* the non-empty trimmed lines of the input, as written (case kept)
TrimmedLines ==
    LET raw == Splitlines(invoice_text)
    IN  SelectSeq([i \in 1..Len(raw) |-> Strip(raw[i])], IsCounted)

HasHighKeyword(line) == AnyKeyword(Lower(line), high_risk_keywords)
HasLowKeyword(line) == AnyKeyword(Lower(line), low_risk_keywords)
HasBothKeywords(line) == HasHighKeyword(line) /\ HasLowKeyword(line)
HasLowKeywordOnly(line) == HasLowKeyword(line) /\ ~HasHighKeyword(line)

\* the number of lines of a text that hold a character other than
\* whitespace, counted on the text itself
NonBlankLineCount(text) ==
    LET ends == {i \in 1..Len(text) : text[i] = NL}
        inked == {i \in 1..Len(text) : text[i] \notin Whitespace \cup {NL}}
    IN  Cardinality({Cardinality({j \in ends : j < i}) : i \in inked})

\* C1: every counted line that holds both a high-risk and a low-risk keyword
\* is classified high-risk: it is counted in high_risk_count and listed in
\* risky_items (once, in input order), and it is neither counted in
\* low_risk_count nor listed in low_risk_items.
C1_HighRiskPrecedence ==
    HealthReturned =>
        /\ scan.high_risk_count = Len(scan.risky_items)
        /\ scan.low_risk_count = Len(scan.low_risk_items)
        /\ LET written == TrimmedLines
           IN  SelectSeq(scan.risky_items, HasBothKeywords)
                 = SelectSeq([i \in 1..Len(written) |-> Lower(written[i])],
                             HasBothKeywords)
        /\ SelectSeq(scan.low_risk_items, HasBothKeywords) = <<>>

C1_Witness ==
    /\ HealthReturned
    /\ \E i \in 1..Len(scan.risky_items) : HasBothKeywords(scan.risky_items[i])
    /\ scan.low_risk_count > 0

\* C2: with at least one counted line, the score is
\* max(0, 100 - trunc(100 * highCount / totalNonEmptyLines)), an integer in
\* 0..100 (so that a larger ratio never gets a larger score).
C2_ScoreIsTruncatedPercentage ==
    (HealthReturned /\ scan.total_lines > 0) =>
        /\ result.score
             = Max(0, 100 - ((100 * scan.high_risk_count) \div scan.total_lines))
        /\ result.score \in 0..100

\* C3: with at least one counted line, the status is Risky when
\* highCount > 0 and lowCount = 0, else Needs Attention when
\* highCount > lowCount, else Healthy; so it is Healthy whenever
\* highCount = 0 or highCount <= lowCount.
C3_StatusFirstMatch ==
    (HealthReturned /\ scan.total_lines > 0) =>
        LET h == scan.high_risk_count
            l == scan.low_risk_count
        IN  /\ (h > 0 /\ l = 0) => result.status = "Risky Spending"
            /\ (~(h > 0 /\ l = 0) /\ h > l) => result.status = "Needs Attention"
            /\ (~(h > 0 /\ l = 0) /\ ~(h > l)) => result.status = "Healthy"
            /\ (h = 0 \/ h <= l) => result.status = "Healthy"

C3_Witness ==
    /\ HealthReturned
    /\ result.status = "Needs Attention"
    /\ scan.low_risk_count > 0

\* C4: a text without a non-blank line gets the fixed result (score 100,
\* Healthy, the two fixed sentences), and whitespace-only lines never count
\* toward total_lines.
C4_EmptyInputFixedResult ==
    HealthReturned =>
        /\ scan.total_lines = NonBlankLineCount(invoice_text)
        /\ NonBlankLineCount(invoice_text) = 0 =>
              result = [score |-> 100, status |-> "Healthy",
                        tip |-> "No risky spending patterns detected.",
                        explanation |-> <<"No invoice content found to analyze.">>]

C4_Witness ==
    /\ HealthReturned
    /\ \E i \in 1..Len(invoice_text) : invoice_text[i] \in Whitespace
    /\ \E i \in 1..Len(invoice_text) : invoice_text[i] = NL
    /\ scan.total_lines = 0
    /\ result.score = 100

\* C9: with at least one counted line, the explanation lists the high-risk
\* lines, and likewise the low-risk lines, as they are written in the input
\* (trimmed, case kept), in input order, with their count; a count of zero
\* gives the fixed sentence instead.
C9_ExplanationListsLinesVerbatim ==
    (HealthReturned /\ scan.total_lines > 0) =>
        LET high == SelectSeq(TrimmedLines, HasHighKeyword)
            low == SelectSeq(TrimmedLines, HasLowKeywordOnly)
            highPart ==
                IF high = <<>> THEN <<"No high-risk spending detected.">>
                ELSE <<"Detected ">> \o IntToStr(Len(high))
                     \o <<" high-risk spending items: ">>
                     \o Join(high, <<",", " ">>) \o <<".">>
            lowPart ==
                IF low = <<>> THEN <<"No low-risk, essential spending detected.">>
                ELSE <<"Detected ">> \o IntToStr(Len(low))
                     \o <<" low-risk spending items: ">>
                     \o Join(low, <<",", " ">>) \o <<".">>
        IN  result.explanation = highPart \o <<NL>> \o lowPart

(***************************************************************************)
(* Properties of parse_time_series_expenses and                            *)
(* show_expense_trend_analysis, stated for SpecExpenses.                   *)
(***************************************************************************)
Parsed == pc \in {"parsed", "shown"}
Shown == pc = "shown"

\* the whole line is: YYYY-MM-DD, whitespace, '$', digits, and nothing more
\* than an optional '.' with two digits
StrictShape(line) ==
    /\ Len(line) >= 13
    /\ \A i \in {1, 2, 3, 4, 6, 7, 9, 10} : IsDigit(line[i])
    /\ line[5] = "-" /\ line[8] = "-"
    /\ \E a \in 11..Len(line), b \in 13..Len(line) :
          /\ \A i \in 11..a : IsSpace(line[i])
          /\ a + 1 < b
          /\ line[a + 1] = "$"
          /\ \A i \in (a + 2)..b : IsDigit(line[i])
          /\ \/ b = Len(line)
             \/ /\ b + 3 = Len(line)
                /\ line[b + 1] = "."
                /\ IsDigit(line[b + 2]) /\ IsDigit(line[b + 3])

IsStrictLine(raw) == StrictShape(Strip(raw))

\* C5: a line yields an entry only if the whole trimmed line has the strict
\* shape; a line that deviates from it in any way adds nothing to `data`,
\* whatever the lines around it: `data` is what the strictly shaped lines
\* alone yield.
C5_OnlyStrictLinesYieldEntries ==
    Parsed =>
        data = ParseEntries(Join(SelectSeq(Splitlines(analysis_text), IsStrictLine),
                                 <<NL>>))

\* the calendar month of an entry and of a row key, as a number
MonthIndexOfDate(date) == 12 * date.year + date.month
MonthIndexOfKey(key) == 12 * StrToInt(SubSeq(key, 1, 4)) + StrToInt(SubSeq(key, 6, 7))

RECURSIVE TotalOfMonth(_, _, _)
TotalOfMonth(entries, index, i) ==
    IF i = 0 THEN 0
    ELSE TotalOfMonth(entries, index, i - 1)
         + (IF MonthIndexOfDate(entries[i].Date) = index THEN entries[i].Amount ELSE 0)

ExampleJanuaryText ==
    Join(<< <<"2","0","2","5","-","0","1","-","1","5"," ","$","1","0","0",".","0","0">>,
            <<"2","0","2","5","-","0","1","-","2","0"," ","$","5","0",".","0","0">> >>,
         <<NL>>)

\* C6: the table has exactly one row per year-month among the entries, a
\* row's amount is the sum of the amounts of the entries of its month, the
\* rows are in strictly ascending year-month order, no entries give the empty
\* table, and the two January lines give the single row ("2025-01", 150.00).
C6_MonthlyTotals ==
    Parsed =>
        /\ \A i \in 1..Len(data) :
              \E r \in 1..Len(df) :
                  /\ MonthIndexOfKey(df[r].Month) = MonthIndexOfDate(data[i].Date)
                  /\ Len(df[r].Month) = 7 /\ df[r].Month[5] = "-"
        /\ \A r \in 1..Len(df) :
              /\ \E i \in 1..Len(data) :
                    MonthIndexOfDate(data[i].Date) = MonthIndexOfKey(df[r].Month)
              /\ df[r].Amount
                   = TotalOfMonth(data, MonthIndexOfKey(df[r].Month), Len(data))
        /\ \A r \in 1..(Len(df) - 1) :
              MonthIndexOfKey(df[r].Month) < MonthIndexOfKey(df[r + 1].Month)
        /\ data = <<>> => df = <<>>
        /\ analysis_text = ExampleJanuaryText =>
              df = <<[Month |-> <<"2","0","2","5","-","0","1">>, Amount |-> 15000]>>

C6_Witness ==
    /\ Parsed
    /\ analysis_text = ExampleJanuaryText
    /\ Len(data) = 2
    /\ Len(df) = 1

Direction(message) ==
    IF message[1] = <<"[up] ">> THEN "Up"
    ELSE IF message[1] = <<"[down] ">> THEN "Down"
    ELSE IF message[1] = <<"[flat] ">> THEN "Flat"
    ELSE "?"

\* C7: fewer than two rows give the one warning and no trend entry; n >= 2
\* rows give no warning and n - 1 entries, in the rows' order, the k-th
\* comparing row k+1 with row k: delta = later amount - earlier amount, and
\* the direction is Up, Down or Flat as delta is positive, negative or zero.
C7_OneEntryPerConsecutivePair ==
    Shown =>
        IF Len(df) < 2
        THEN /\ trend.warnings = <<"Not enough data to determine trends.">>
             /\ trend.entries = <<>>
             /\ trend.markdowns = <<>>
        ELSE /\ trend.warnings = <<>>
             /\ Len(trend.entries) = Len(df) - 1
             /\ Len(trend.markdowns) = Len(df) - 1
             /\ \A k \in 1..(Len(df) - 1) :
                   LET e == trend.entries[k]
                       delta == df[k + 1].Amount - df[k].Amount
                   IN  /\ e.change = delta
                       /\ e.message[2] = df[k + 1].Month
                       /\ e.message[Len(e.message)] = df[k].Month
                       /\ trend.markdowns[k] = << <<"- ">> >> \o e.message
                       /\ Direction(e.message)
                            = IF delta > 0 THEN "Up"
                              ELSE IF delta < 0 THEN "Down" ELSE "Flat"

C7_Witness ==
    /\ Shown
    /\ Len(df) >= 3
    /\ Len(trend.entries) = Len(df) - 1
    /\ \E k \in 1..Len(trend.entries) : Direction(trend.entries[k].message) = "Down"
    /\ \E k \in 1..Len(trend.entries) : Direction(trend.entries[k].message) = "Up"

Names(message, value) == \E j \in 1..Len(message) : message[j] = value

Abs(x) == IF x < 0 THEN 0 - x ELSE x

\* the percentage of a pair of rows as the message prints it
PercentText(earlier, later) ==
    IF earlier.Amount = 0 THEN <<"0", ".", "0", "0">>
    ELSE Format2(RoundHalfEven(10000 * Abs(later.Amount - earlier.Amount),
                               earlier.Amount))

ExampleTable ==
    <<[Month |-> <<"2","0","2","5","-","0","1">>, Amount |-> 10000],
      [Month |-> <<"2","0","2","5","-","0","2">>, Amount |-> 15000],
      [Month |-> <<"2","0","2","5","-","0","3">>, Amount |-> 15000]>>

\* C8 as stated: in each of the three directions the message names the
\* current month, the delta, the percentage and the prior month.
C8_EveryMessageNamesDeltaAndPercent ==
    Shown =>
        \A k \in 1..Len(trend.entries) :
            LET m == trend.entries[k].message
            IN  /\ Names(m, df[k + 1].Month)
                /\ Names(m, Format2(Abs(df[k + 1].Amount - df[k].Amount)))
                /\ Names(m, PercentText(df[k], df[k + 1]))
                /\ Names(m, df[k].Month)

\* C8 amended: an Up or Down message names the current month, the size of
\* the delta (after "Increase of" or "Decrease of"), the percentage and the
\* prior month; a Flat message names the current month and the prior month
\* only.  For the totals 100, 150, 150 the February message reports 50.00 and
\* 50.00% and the March message reports no change.
C8_MessagesByDirection ==
    Shown =>
        /\ \A k \in 1..Len(trend.entries) :
              LET m == trend.entries[k].message
                  delta == df[k + 1].Amount - df[k].Amount
              IN  IF delta # 0
                  THEN /\ Len(m) = 8
                       /\ m[2] = df[k + 1].Month
                       /\ m[3] = IF delta > 0 THEN <<": Increase of Rs">>
                                 ELSE <<": Decrease of Rs">>
                       /\ m[4] = Format2(Abs(delta))
                       /\ m[6] = PercentText(df[k], df[k + 1])
                       /\ m[8] = df[k].Month
                  ELSE m = << <<"[flat] ">>, df[k + 1].Month,
                              <<": No change compared to ">>, df[k].Month >>
        /\ df = ExampleTable =>
              /\ trend.entries[1].message
                   = << <<"[up] ">>, <<"2","0","2","5","-","0","2">>,
                        <<": Increase of Rs">>, <<"5","0",".","0","0">>,
                        <<" (">>, <<"5","0",".","0","0">>,
                        <<"%) compared to ">>, <<"2","0","2","5","-","0","1">> >>
              /\ trend.entries[2].message
                   = << <<"[flat] ">>, <<"2","0","2","5","-","0","3">>,
                        <<": No change compared to ">>,
                        <<"2","0","2","5","-","0","2">> >>

C8_Witness ==
    /\ Shown
    /\ df = ExampleTable
    /\ Len(trend.entries) = 2
    /\ \E k \in 1..Len(trend.entries) : Direction(trend.entries[k].message) = "Flat"

\* C10: for a pair whose earlier amount is 0 the percentage is 0 and nothing
\* is divided by zero, whatever the later amount; for a pair whose earlier
\* amount is not 0 the percentage is delta / earlier amount * 100.
C10_PercentOfZeroBase ==
    Shown =>
        \A k \in 1..Len(trend.entries) :
            LET e == trend.entries[k]
                delta == df[k + 1].Amount - df[k].Amount
            IN  /\ e.percent.den # 0
                /\ df[k].Amount = 0 => e.percent.num = 0
                /\ df[k].Amount # 0 =>
                      e.percent = [num |-> 100 * delta, den |-> df[k].Amount]
                /\ (df[k].Amount = 0 /\ delta > 0) =>
                      e.message[6] = <<"0", ".", "0", "0">>

C10_Witness ==
    /\ Shown
    /\ \E k \in 1..Len(trend.entries) :
          /\ df[k].Amount = 0 /\ df[k + 1].Amount > 0
          /\ trend.entries[k].percent.num = 0
    /\ \E k \in 1..Len(trend.entries) : df[k].Amount # 0

====
